---------------------------- MODULE Spec2Model ----------------------------
(***************************************************************************)
(* A model of the AIAgent composition layer of mcp-ai-agent                *)
(* (src/src/AIAgent.ts, src/src/utils.ts, src/src/utils/textUtils.ts).     *)
(*                                                                         *)
(* Strings whose characters matter (agent and tool names) are sequences    *)
(* of one-character strings; JavaScript objects are functions from their   *)
(* keys to their values; a falsy string (undefined or "") is << >>.        *)
(***************************************************************************)
EXTENDS Integers, Sequences, FiniteSets, TLC

VARIABLES
    config,       \* AIAgent.config: the list of configuration entries
    env,          \* process.env: parameter key -> "unset" | "empty" | "set"
    clients,      \* AIAgent.clients: server name -> client
    tools,        \* AIAgent.tools: tool name -> tool
    agents,       \* AIAgent.agents: registry key -> nested agent
    initialized,  \* AIAgent.initialized
    conn,         \* per call, per server slot: the connection and its client
    nested,       \* per nested agent object: "open" | "closing" | "closed" | "closeFailed"
    kind,         \* per call: which method was called
    args,         \* per call: the arguments of generateResponse
    pc,           \* per call: where the async method is suspended
    mapState,     \* per call, per server map: the state of initializeMcpConfig
    mapErr,       \* per call, per server map: the error its catch block holds
    toolq,        \* per call: the clients whose tools() promise is pending
    frames,       \* the close() calls awaiting Promise.all(closePromises)
    error,        \* per call: the error it rejected with
    forwarded,    \* per call: the arguments passed to generateText
    response,     \* per call: what generateResponse returned
    objReturn,    \* per call: what generateObject returned
    info,         \* per call: what getInfo returned
    nclients,     \* per nested agent: its own clients (none: an agent seen
                  \* only through AIAgentInterface)
    hist          \* per call: history (ranInit, closeInvoked, firstFailure, ...)

constVars == <<config, env>>
vars == <<config, env, clients, tools, agents, initialized, conn, nested,
          kind, args, pc, mapState, mapErr, toolq, frames, error,
          forwarded, response, objReturn, info, nclients, hist>>

-----------------------------------------------------------------------------
(* Bounds *)

MaxNameLen == 4   \* longest agent name drawn for the agent-as-tool adapter
MaxRegs == 2      \* times one AgentConfig appears in a configuration list
MaxOps == 3       \* method calls on the agent in one behaviour
MaxCalls == 2     \* method calls in a behaviour where every call can be any method
MaxTok == 2       \* largest token count a sub-call reports
MaxParams == 2    \* longest parameter list of an auto-resolved descriptor
MaxNestedClients == 2   \* most clients a nested agent owns
MaxStepsArg == 2  \* largest step cap a caller passes
MaxEntries == 2   \* longest configuration list
MaxDescriptors == 2   \* most underlying descriptors of an auto descriptor

\* const.js: the step cap used when the caller gives none
DEFAULT_MAX_STEPS == 20

-----------------------------------------------------------------------------
(* JavaScript objects and strings *)

EmptyObj == <<>>

\* { ...a, ...b }: the keys of both, b's value where both have the key
Spread(a, b) ==
    [k \in (DOMAIN a) \cup (DOMAIN b) |-> IF k \in DOMAIN b THEN b[k] ELSE a[k]]

\* obj[key] = value
Put(obj, key, value) ==
    [k \in (DOMAIN obj) \cup {key} |-> IF k = key THEN value ELSE obj[k]]

Alphabet == {"A", "b", " "}

StrUpTo(n) == UNION {[1..k -> Alphabet] : k \in 0..n}

UpperCase == {"A"}

\* String.prototype.toLowerCase, character by character
LowerChar(c) == IF c = "A" THEN "a" ELSE c

ToLowerCase(s) == [i \in 1..Len(s) |-> LowerChar(s[i])]

\* String.prototype.replace(from, to) with a string pattern: the first
\* occurrence only
ReplaceFirst(s, from, to) ==
    IF \E i \in 1..Len(s) : s[i] = from
    THEN LET first == CHOOSE i \in 1..Len(s) :
                         /\ s[i] = from
                         /\ \A j \in 1..(i - 1) : s[j] # from
         IN  [i \in 1..Len(s) |-> IF i = first THEN to ELSE s[i]]
    ELSE s

\* the values Math.random().toString(36).substring(2, 15) can take here
RandomIds == {<<"r", "1">>, <<"r", "2">>}

\* toSnakeCase(str); rnd is the draw of Math.random
ToSnakeCase(str, rnd) ==
    IF str = <<>> THEN rnd
    ELSE ReplaceFirst(ToLowerCase(str), " ", "_")

AgentPrefix == <<"a", "g", "e", "n", "t", "_">>

-----------------------------------------------------------------------------
(* The tool filter: filterTools *)

\* a predicate on tools is given by the set of tools it accepts; the
\* argument may also be left undefined
NoFilter == [given |-> FALSE, accepts |-> {}]
Predicate(S) == [given |-> TRUE, accepts |-> S]

\* the default parameter: filter = () => true
FilterAccepts(filter, tool) == ~filter.given \/ tool \in filter.accepts

\* a filter that keeps every entry whatever the predicate says
FilterToolsKeepsAll(tls, filter) == tls

\* Object.fromEntries(Object.entries(tools).filter(([_, tool]) => filter(tool)))
FilterTools(tls, filter) ==
    LET kept == {k \in DOMAIN tls : FilterAccepts(filter, tls[k])}
    IN  [k \in kept |-> tls[k]]

\* a filter that deletes the rejected entries from the mapping it is given
FilterToolsInPlace(tls, filter) ==
    [result |-> FilterTools(tls, filter), input |-> FilterTools(tls, filter)]

\* one call of filterTools: what it returns and what it leaves in the
\* mapping it was given (Object.entries reads it, Object.fromEntries
\* builds the result)
FilterToolsCall(tls, filter) ==
    [result |-> FilterTools(tls, filter), input |-> tls]

-----------------------------------------------------------------------------
(* Configuration entries (WorkflowConfig) and the process environment *)

NoName == <<>>

\* AgentConfig.messages: left undefined, or a list of messages
NoMessages == [given |-> FALSE, value |-> <<>>]
MessageList(ms) == [given |-> TRUE, value |-> ms]

\* one parameter declaration of an MCPAutoConfig, in Object.entries order
Param(key, required) == [key |-> key, required |-> required]

\* an underlying direct-server descriptor (StdioConfig | SSEConfig): its
\* type property ("" when it has none) and its own env entries
Descriptor(type, ownEnv) == [type |-> type, env |-> ownEnv]

\* mcpConfig of an auto descriptor whose underlying descriptor has the
\* given type and no env entries; a server that is not auto has none
McpConfigOf(mcpType) ==
    IF mcpType = "" THEN <<>> ELSE <<Descriptor(mcpType, <<>>)>>

\* one server of a server map, or the server an auto descriptor describes;
\* type is the server's own discriminator ("stdio" when absent, "auto" for
\* an auto descriptor, whose underlying descriptors are mcpConfig)
Server(name, type, parameters, mcpType) ==
    [name |-> name, type |-> type, parameters |-> parameters,
     mcpConfig |-> McpConfigOf(mcpType)]

\* an auto descriptor with the list of its underlying descriptors (a
\* single descriptor is the list of length one)
AutoEntryOf(name, parameters, mcpConfig) ==
    [tag |-> "auto", name |-> name, parameters |-> parameters, mcpConfig |-> mcpConfig,
     mcpServers |-> <<>>, cname |-> NoName, agent |-> "", agentName |-> NoName,
     messages |-> NoMessages]

AutoEntry(name, parameters, mcpType) ==
    AutoEntryOf(name, parameters, McpConfigOf(mcpType))

MapEntry(servers) ==
    [tag |-> "map", name |-> "", parameters |-> <<>>, mcpConfig |-> <<>>,
     mcpServers |-> servers, cname |-> NoName, agent |-> "", agentName |-> NoName,
     messages |-> NoMessages]

ToolEntry(cname) ==
    [tag |-> "tool", name |-> "", parameters |-> <<>>, mcpConfig |-> <<>>,
     mcpServers |-> <<>>, cname |-> cname, agent |-> "", agentName |-> NoName,
     messages |-> NoMessages]

\* an agent entry with the message list of its pass-through options
AgentEntryWith(cname, agent, agentName, messages) ==
    [tag |-> "agent", name |-> "", parameters |-> <<>>, mcpConfig |-> <<>>,
     mcpServers |-> <<>>, cname |-> cname, agent |-> agent, agentName |-> agentName,
     messages |-> messages]

AgentEntry(cname, agent, agentName) ==
    AgentEntryWith(cname, agent, agentName, NoMessages)

EnvValues == {"unset", "empty", "set"}

\* !process.env[key]: an unset variable and an empty one are both falsy
EnvFalsy(e, key) == e[key] # "set"

\* a check that stops at the first missing variable
MissingEnvVarsFirstOnly(parameters, e) ==
    LET all == SelectSeq(parameters, LAMBDA p : p.required /\ EnvFalsy(e, p.key))
    IN  IF all = <<>> THEN <<>> ELSE <<all[1]>>

\* Object.entries(parameters).filter(([key, value]) => value.required &&
\* !process.env[key]).map(([key]) => key)
MissingEnvVars(parameters, e) ==
    SelectSeq(parameters, LAMBDA p : p.required /\ EnvFalsy(e, p.key))

\* the reduce over parameters: the declared keys whose variable is truthy
EnvVars(parameters, e) ==
    {parameters[i].key : i \in {j \in 1..Len(parameters) : ~EnvFalsy(e, parameters[j].key)}}

KeysOf(seq) == {seq[i].key : i \in 1..Len(seq)}

\* the value of a variable that is set and not empty
EnvValue(key) == <<"value of", key>>

\* envVars: acc[key] = process.env[key] for the declared keys whose
\* variable is truthy
InjectedEnv(parameters, e) == [k \in EnvVars(parameters, e) |-> EnvValue(k)]

\* Array.isArray(mcpConfig) ? mcpConfig[0] : mcpConfig
SelectedDescriptor(mcpConfig) == mcpConfig[1]

\* "type" in serverConfig ? serverConfig.type : "stdio"
TypeOrStdio(d) == IF d.type = "" THEN "stdio" ELSE d.type

\* the switch of initializeAutoServer: the initializer it calls and the
\* configuration it hands over; { ...serverConfig, env: envVars } for a
\* subprocess, serverConfig itself for a network stream
AutoHandOver(srv, e) ==
    LET d == SelectedDescriptor(srv.mcpConfig)
    IN  IF TypeOrStdio(d) = "sse"
        THEN [initializer |-> "initializeSSEServer", config |-> d]
        ELSE [initializer |-> "initializeSdtioServer",
              config |-> [d EXCEPT !.env = InjectedEnv(srv.parameters, e)]]

\* errors: `Missing environment variables: ${names.join(", ")}`,
\* `Unsupported server type for server ${name}`, and what createMCPClient,
\* client.tools(), client.close() and generateText reject with
Err(k, server, names) == [kind |-> k, server |-> server, names |-> names]
NoError == Err("none", "", <<>>)

-----------------------------------------------------------------------------
(* The agent-as-tool adapter: AIAgent.initializeAgentConfig *)

Tool(src, id) == [src |-> src, id |-> id]

\* const name = config.name ? toSnakeCase(config.name)
\*                          : toSnakeCase(config.agent.getInfo?.()?.name)
ResolvedName(entry, rnd) ==
    IF entry.cname # NoName THEN ToSnakeCase(entry.cname, rnd)
    ELSE ToSnakeCase(entry.agentName, rnd)

\* `agent_${toSnakeCase(name)}`
AgentToolName(name, rnd) == AgentPrefix \o ToSnakeCase(name, rnd)

\* this.agents[name] = { agent, config }; this.tools[agent_...] = tool(...)
InitializeAgentConfig(ag, tl, entry, rnd) ==
    LET name == ResolvedName(entry, rnd)
        toolName == AgentToolName(name, rnd)
    IN  [agents |-> Put(ag, name, entry),
         tools |-> Put(tl, toolName, Tool("agent", entry.agent)),
         key |-> name, tool |-> toolName]

\* the arguments execute passes to config.agent.generateResponse:
\* prompt: `<Context>${context}</Context>\n<Prompt>${prompt}</Prompt>`,
\* messages: config.messages
AdapterCall(entry, context, prompt) ==
    [prompt |-> [given |-> TRUE, value |-> <<"<Context>", context, "<Prompt>", prompt>>],
     messages |-> entry.messages]

\* the "tool" branch of the router: this.tools[toSnakeCase(config.name)] = tool(...)
RegisterInlineTool(tl, entry, rnd) ==
    Put(tl, ToSnakeCase(entry.cname, rnd), Tool("inline", "inline"))

-----------------------------------------------------------------------------
(* The state of one agent and of the calls made on it *)

Ops == 1..MaxOps

\* a router whose chain has no branch for inline tools
RouteWithoutToolBranch(entry) ==
    CASE entry.tag = "auto" -> "initializeAutoServer"
      [] entry.tag = "agent" -> "initializeAgentConfig"
      [] OTHER -> "initializeMcpConfig"

\* initializeConfigRouter: the if / else if chain on config.type; the tag
\* of an entry is its type property (MapEntry: an entry without one)
Route(entry) ==
    CASE entry.tag = "auto" -> "initializeAutoServer"
      [] entry.tag = "agent" -> "initializeAgentConfig"
      [] entry.tag = "tool" -> "tool"
      [] OTHER -> "initializeMcpConfig"

Handlers == {"initializeAutoServer", "initializeAgentConfig", "tool", "initializeMcpConfig"}

RoutedTo(cfg, h) == {i \in 1..Len(cfg) : Route(cfg[i]) = h}

AutoIdx(cfg) == RoutedTo(cfg, "initializeAutoServer")
MapIdx(cfg) == RoutedTo(cfg, "initializeMcpConfig")
MapSlots(cfg, i) == {<<i, j>> : j \in 1..Len(cfg[i].mcpServers)}

\* a server slot: <<i, 0>> is the auto descriptor config[i], <<i, j>> the
\* j-th server of the server map config[i]
Slots(cfg) ==
    {<<i, 0>> : i \in AutoIdx(cfg)} \cup UNION {MapSlots(cfg, i) : i \in MapIdx(cfg)}

SlotServer(cfg, s) ==
    IF s[2] = 0
    THEN [name |-> cfg[s[1]].name, type |-> "auto",
          parameters |-> cfg[s[1]].parameters, mcpConfig |-> cfg[s[1]].mcpConfig]
    ELSE cfg[s[1]].mcpServers[s[2]]

\* the client a call's initialize creates for a slot
ClientId(o, s) == <<o, s[1], s[2]>>
ConnState(st, c) == st.conn[c[1]][<<c[2], c[3]>>]
ClientServer(c) == SlotServer(config, <<c[2], c[3]>>).name

\* the connection states in which this.clients[name] has been assigned
Stored == {"open", "closing", "closed", "closeFailed"}

RegistryClients(st) == {st.clients[n] : n \in DOMAIN st.clients}
RegistryAgents(st) == {st.agents[k].agent : k \in DOMAIN st.agents}

Remove(f, k) == [x \in (DOMAIN f) \ {k} |-> f[x]]

St ==
    [clients |-> clients, tools |-> tools, agents |-> agents,
     initialized |-> initialized, conn |-> conn, nested |-> nested,
     kind |-> kind, args |-> args, pc |-> pc, mapState |-> mapState,
     mapErr |-> mapErr, toolq |-> toolq, frames |-> frames, error |-> error,
     forwarded |-> forwarded, response |-> response, objReturn |-> objReturn,
     info |-> info, nclients |-> nclients, hist |-> hist]

Commit(st) ==
    /\ clients' = st.clients
    /\ tools' = st.tools
    /\ agents' = st.agents
    /\ initialized' = st.initialized
    /\ conn' = st.conn
    /\ nested' = st.nested
    /\ kind' = st.kind
    /\ args' = st.args
    /\ pc' = st.pc
    /\ mapState' = st.mapState
    /\ mapErr' = st.mapErr
    /\ toolq' = st.toolq
    /\ frames' = st.frames
    /\ error' = st.error
    /\ forwarded' = st.forwarded
    /\ response' = st.response
    /\ objReturn' = st.objReturn
    /\ info' = st.info
    /\ nclients' = st.nclients
    /\ hist' = st.hist

-----------------------------------------------------------------------------
(* generateResponse: the call it forwards and the result it returns *)

\* optional arguments: left undefined, or given with a value; a system
\* prompt is the sequence of its parts, the empty prompt is << >>
NoModel == [given |-> FALSE, value |-> ""]
NoSystem == [given |-> FALSE, value |-> <<>>]
NoSteps == [given |-> FALSE, value |-> 0]
Given(v) == [given |-> TRUE, value |-> v]

\* this.name, this.description
AgentName == "agent"
AgentDescription == "description"

NoInfo ==
    [name |-> "", description |-> "", tools |-> {}, agents |-> {},
     model |-> "", system |-> <<>>]

\* this.model (model || DEFAULT_MODEL) and this.system (systemPrompt)
DefaultModel == "agent-model"
DefaultSystem == <<"agent-system">>

\* x || fallback: undefined and the falsy value of the type (0, "") both
\* fall back
OrElse(x, falsy, fallback) ==
    IF x.given /\ x.value # falsy THEN x.value ELSE fallback

NoCall ==
    [tools |-> EmptyObj, model |-> "", system |-> <<>>, maxSteps |-> 0]

\* a merge in the other order: { ...args.tools, ...filteredTools }
AllToolsRegistryWins(tls, a) == Spread(a.tools, FilterTools(tls, a.filterMCPTools))

\* const filteredTools = filterTools(this.tools, args.filterMCPTools);
\* const allTools = { ...filteredTools, ...args.tools };
AllTools(tls, a) == Spread(FilterTools(tls, a.filterMCPTools), a.tools)

\* generateText({ ...args, system: args.system || this.system, model,
\*                tools: allTools, maxSteps: args.maxSteps || DEFAULT_MAX_STEPS })
\* with model = args.model || this.model
ForwardedCall(tls, a) ==
    [tools |-> AllTools(tls, a),
     model |-> OrElse(a.model, "", DefaultModel),
     system |-> OrElse(a.system, <<>>, DefaultSystem),
     maxSteps |-> OrElse(a.maxSteps, 0, DEFAULT_MAX_STEPS)]

FixedSentence ==
    "The AI completed with tool calls, but no final text was generated. Check if the requested resources were found."

Usage(p, c, t) == [promptTokens |-> p, completionTokens |-> c, totalTokens |-> t]

NoResponse ==
    [text |-> "none", finishReason |-> "none", usage |-> Usage(0, 0, 0), toolCalls |-> 0]

\* a post-processing that substitutes nothing
PostProcessNothing(res) == res

\* a post-processing that substitutes whenever the text is empty
PostProcessAnyEmpty(res) ==
    IF res.text = "" THEN [res EXCEPT !.text = FixedSentence] ELSE res

\* const finalResponse = { ...response };
\* if (!response.text && response.finishReason === "tool-calls") finalResponse.text = ...
PostProcess(res) ==
    IF res.text = "" /\ res.finishReason = "tool-calls"
    THEN [res EXCEPT !.text = FixedSentence]
    ELSE res

AddUsage(u, v) ==
    Usage(u.promptTokens + v.promptTokens, u.completionTokens + v.completionTokens,
          u.totalTokens + v.totalTokens)

\* response.usage.completionTokens += textResponse.usage.completionTokens; ...
\* (the usage object of the extraction result, after the three updates)
AccumulatedUsage(reported, textUsage) == AddUsage(reported, textUsage)

\* usage: { promptTokens: textResponse.usage.promptTokens + response.usage.promptTokens, ... }
\* read after the three updates
ReturnedUsage(reported, textUsage) ==
    AddUsage(textUsage, AccumulatedUsage(reported, textUsage))

\* what generateObject returns
ObjectReturn(reported, textUsage) ==
    [usage |-> ReturnedUsage(reported, textUsage),
     textGenerationUsage |-> textUsage,
     objectGenerationUsage |-> AccumulatedUsage(reported, textUsage)]

\* an initialize that completes without setting the flag
SetInitializedForgets(st, o) == [st EXCEPT !.hist.initOk[o] = TRUE]

\* this.initialized = true
SetInitialized(st, o) ==
    [st EXCEPT !.initialized = TRUE, !.hist.initOk[o] = TRUE]

\* the synchronous part of generateResponse after the initialized check:
\* the tool set is computed and generateText is called
Invoke(st, o) ==
    [st EXCEPT !.pc[o] = "invoking",
               !.forwarded[o] = ForwardedCall(st.tools, st.args[o]),
               !.hist.issued[o] = TRUE,
               !.tools = FilterToolsCall(st.tools, st.args[o].filterMCPTools).input,
               !.hist.toolsBeforeFilter[o] = st.tools,
               !.hist.filtered[o] =
                   FilterToolsCall(st.tools, st.args[o].filterMCPTools).result,
               !.hist.invokedInit[o] = st.initialized]

-----------------------------------------------------------------------------
(* close() and the promises that settle initialize *)

\* the clients that are connected and on which close() was never called
OpenClients(st) ==
    {c \in UNION {{ClientId(o, s) : s \in DOMAIN st.conn[o]} : o \in DOMAIN st.conn} :
        ConnState(st, c) = "open"}

\* the clients call o has connected and on which close() was never called
OpenedBy(st, o) == {c \in OpenClients(st) : c[1] = o}

\* initialize's Promise.all rejects: initialize, and the generateResponse
\* awaiting it, reject with the first error
RejectInit(st, o, err) ==
    IF st.pc[o] \in {"routers", "tools"}
    THEN [st EXCEPT !.pc[o] = "failed", !.error[o] = err,
                    !.hist.openAtReject[o] = OpenClients(st),
                    !.hist.connectingAtReject[o] =
                        {s \in DOMAIN st.conn[o] : st.conn[o][s] = "connecting"}]
    ELSE st

\* the clients of nested agents whose close() has been called and has not
\* settled
ClosingNestedClients(st) ==
    UNION {{<<a, c>> : c \in {d \in DOMAIN st.nclients[a] : st.nclients[a][d] = "closing"}} :
              a \in DOMAIN st.nclients}

\* what happens after `await this.close()` settles: a close() the caller
\* made (frame <<o, 0>>) resolves or rejects; the catch block of
\* initializeMcpConfig (frame <<o, i>>) rethrows the error it caught, or
\* throws the error of close()
FrameSettled(st, fid, closeErr) ==
    LET o == fid[1]
        i == fid[2]
    IN  IF i = 0
        THEN [st EXCEPT !.pc[o] = IF closeErr = NoError THEN "done" ELSE "failed",
                        !.error[o] = closeErr,
                        !.hist.pendingAtSettle[o] = ClosingNestedClients(st)]
        ELSE RejectInit([st EXCEPT !.mapState[o][i] = "rejected"], o,
                        IF closeErr = NoError THEN st.mapErr[o][i] ELSE closeErr)

\* a close() that clears the client registry only
CompleteFrameKeepsAgents(st, fid) ==
    FrameSettled([st EXCEPT !.clients = EmptyObj,
                            !.frames = Remove(st.frames, fid)], fid, NoError)

\* await Promise.all(closePromises) resolved: this.clients = {}; this.agents = {}
CompleteFrame(st, fid) ==
    FrameSettled([st EXCEPT !.clients = EmptyObj, !.agents = EmptyObj,
                            !.frames = Remove(st.frames, fid)], fid, NoError)

\* a close() that clears the registries also when it throws
RejectFrameClears(st, fid, closeErr) ==
    FrameSettled([st EXCEPT !.clients = EmptyObj, !.agents = EmptyObj,
                            !.frames = Remove(st.frames, fid)], fid, closeErr)

\* await Promise.all(closePromises) rejected: close() throws, the
\* registries are left as they are
RejectFrame(st, fid, closeErr) ==
    FrameSettled([st EXCEPT !.frames = Remove(st.frames, fid)], fid, closeErr)

CloseState(x) == IF x \in {"open", "closeFailed"} THEN "closing" ELSE x

\* the synchronous part of close(): close() is called on every client and
\* every nested agent of the registries, then Promise.all is awaited
InvokeClose(st, fid) ==
    LET cs == RegistryClients(st)
        as == RegistryAgents(st)
        conn1 == [o \in DOMAIN st.conn |->
                    [s \in DOMAIN st.conn[o] |->
                        IF ClientId(o, s) \in cs THEN CloseState(st.conn[o][s])
                        ELSE st.conn[o][s]]]
        nested1 == [a \in DOMAIN st.nested |->
                      IF a \in as THEN CloseState(st.nested[a]) ELSE st.nested[a]]
        \* a nested AIAgent's close() calls close() on each of its clients
        nclients1 == [a \in DOMAIN st.nclients |->
                        [c \in DOMAIN st.nclients[a] |->
                            IF a \in as /\ nested1[a] = "closing"
                            THEN CloseState(st.nclients[a][c])
                            ELSE st.nclients[a][c]]]
        awaitC == {c \in cs : conn1[c[1]][<<c[2], c[3]>>] = "closing"}
        awaitA == {a \in as : nested1[a] = "closing"}
        s1 == [st EXCEPT !.conn = conn1, !.nested = nested1, !.nclients = nclients1,
                         !.frames = Put(st.frames, fid, [c |-> awaitC, a |-> awaitA])]
    IN  IF awaitC = {} /\ awaitA = {} THEN CompleteFrame(s1, fid) ELSE s1

\* the catch block of initializeMcpConfig: await this.close(); throw error
MapFail(st, o, i, err) ==
    InvokeClose([st EXCEPT !.mapState[o][i] = "catching", !.mapErr[o][i] = err,
                           !.hist.closeInvoked[o] = TRUE], <<o, i>>)

FrameLeq(f, g) == f[1] < g[1] \/ (f[1] = g[1] /\ f[2] <= g[2])
FirstFrame(fids) == CHOOSE f \in fids : \A g \in fids : FrameLeq(f, g)

\* the close() calls whose every awaited promise has resolved complete, in
\* the order they were made
RECURSIVE CompleteEmpty(_, _)
CompleteEmpty(st, fids) ==
    IF fids = {} THEN st
    ELSE LET f == FirstFrame(fids)
             done == /\ f \in DOMAIN st.frames
                     /\ st.frames[f].c = {}
                     /\ st.frames[f].a = {}
         IN  CompleteEmpty(IF done THEN CompleteFrame(st, f) ELSE st, fids \ {f})

\* Promise.all rejects at the first rejection: every close() awaiting the
\* rejected promise throws
RECURSIVE RejectFrames(_, _, _)
RejectFrames(st, fids, closeErr) ==
    IF fids = {} THEN st
    ELSE LET f == FirstFrame(fids)
         IN  RejectFrames(RejectFrame(st, f, closeErr), fids \ {f}, closeErr)

-----------------------------------------------------------------------------
(* initialize *)

\* what the server of a client reports from client.tools()
NameGet == <<"g", "e", "t">>
NamePut == <<"p", "u", "t">>
NameAsk == <<"a", "s", "k">>
ServerTools(server) ==
    CASE server = "memory" -> [k \in {NameGet, NamePut} |-> Tool("server", "memory")]
      [] server = "fetch" -> [k \in {NameGet} |-> Tool("server", "fetch")]
      [] OTHER -> [k \in {NameAsk} |-> Tool("server", server)]

\* the switch of AIAgent.initializeMcpConfig on
\* "type" in serverConfig ? serverConfig.type : "stdio": the case it takes
McpConfigDispatch(srv) ==
    CASE TypeOrStdio(srv) = "stdio" -> "stdio"
      [] TypeOrStdio(srv) = "sse" -> "sse"
      [] TypeOrStdio(srv) = "auto" -> "auto"
      [] OTHER -> "default"

\* the switch of MCPAgent.initialize: the case it takes
MCPAgentDispatch(srv) ==
    CASE TypeOrStdio(srv) = "stdio" -> "stdio"
      [] TypeOrStdio(srv) = "sse" -> "sse"
      [] OTHER -> "default"

\* an auto-resolved initializer that creates its transport before it
\* looks at the environment
SyncSlotConnectsFirst(srv, e) ==
    CASE srv.type \in {"stdio", "sse", "auto"} -> "connecting"
      [] OTHER -> "rejected"

\* the part of an initializer that runs before its first await: an auto
\* descriptor with a missing required variable throws before any transport
\* is created, an unknown type discriminator throws in the switch of
\* initializeMcpConfig, every other server starts connecting
SyncSlot(srv, e) ==
    CASE McpConfigDispatch(srv) \in {"stdio", "sse"} -> "connecting"
      [] McpConfigDispatch(srv) = "auto" ->
            IF MissingEnvVars(srv.parameters, e) # <<>> THEN "rejected" ELSE "connecting"
      [] OTHER -> "rejected"

SeqKeys(seq) == [i \in 1..Len(seq) |-> seq[i].key]

SyncError(srv, e) ==
    IF srv.type = "auto"
    THEN Err("MissingEnv", srv.name, SeqKeys(MissingEnvVars(srv.parameters, e)))
    ELSE Err("Unsupported", srv.name, <<>>)

MinOf(S) == CHOOSE x \in S : \A y \in S : x <= y

\* the first rejection Promise.all sees among the servers of map i that
\* threw before connecting: the switch default throws in the mapped
\* function itself, a missing variable one await deeper
MapSyncError(cfg, i, e) ==
    LET rej(t) == {j \in 1..Len(cfg[i].mcpServers) :
                      /\ SyncSlot(cfg[i].mcpServers[j], e) = "rejected"
                      /\ (cfg[i].mcpServers[j].type = "auto") = (t = "auto")}
        j == IF rej("other") # {} THEN MinOf(rej("other")) ELSE MinOf(rej("auto"))
    IN  SyncError(cfg[i].mcpServers[j], e)

\* the routers of the "agent" and "tool" entries run to their end before
\* any promise settles; rnd[i] is the draw of Math.random for entry i
RECURSIVE RegisterAll(_, _, _, _, _)
RegisterAll(cfg, i, ag, tl, rnd) ==
    IF i > Len(cfg) THEN [agents |-> ag, tools |-> tl]
    ELSE CASE Route(cfg[i]) = "initializeAgentConfig" ->
                LET r == InitializeAgentConfig(ag, tl, cfg[i], rnd[i])
                IN  RegisterAll(cfg, i + 1, r.agents, r.tools, rnd)
           [] Route(cfg[i]) = "tool" ->
                RegisterAll(cfg, i + 1, ag, RegisterInlineTool(tl, cfg[i], rnd[i]), rnd)
           [] OTHER -> RegisterAll(cfg, i + 1, ag, tl, rnd)

\* initialize is over: this.initialized = true; generateResponse goes on
InitDone(st, o) ==
    LET s1 == SetInitialized(st, o)
    IN  IF s1.kind[o] = "initialize" THEN [s1 EXCEPT !.pc[o] = "done"]
        ELSE Invoke(s1, o)

\* the second Promise.all of initialize: client.tools() is called on every
\* client of the registry
StartToolDiscovery(st, o) ==
    LET q == RegistryClients(st)
    IN  IF q = {} THEN InitDone(st, o)
        ELSE [st EXCEPT !.pc[o] = "tools", !.toolq[o] = q]

\* the first Promise.all of initialize resolves when every router has
RoutersResolved(st, o) ==
    /\ \A i \in AutoIdx(config) : st.conn[o][<<i, 0>>] \in Stored
    /\ \A i \in MapIdx(config) : st.mapState[o][i] = "resolved"

CheckRouters(st, o) ==
    IF st.pc[o] = "routers" /\ RoutersResolved(st, o)
    THEN StartToolDiscovery(st, o)
    ELSE st

RECURSIVE FailMaps(_, _, _)
FailMaps(st, o, idxs) ==
    IF idxs = {} THEN st
    ELSE LET i == MinOf(idxs)
         IN  FailMaps(MapFail(st, o, i, MapSyncError(config, i, env)), o, idxs \ {i})

\* initialize() up to the point where every pending promise awaits input or output
StartInit(st, o, rnd) ==
    LET reg == RegisterAll(config, 1, st.agents, st.tools, rnd)
        conn0 == [s \in Slots(config) |-> SyncSlot(SlotServer(config, s), env)]
        topRej == {i \in AutoIdx(config) : conn0[<<i, 0>>] = "rejected"}
        mapRej == {i \in MapIdx(config) :
                      \E s \in MapSlots(config, i) : conn0[s] = "rejected"}
        topErr == SyncError(SlotServer(config, <<MinOf(topRej), 0>>), env)
        first == IF topRej # {} THEN topErr
                 ELSE IF mapRej # {} THEN MapSyncError(config, MinOf(mapRej), env)
                 ELSE NoError
        s1 == [st EXCEPT !.agents = reg.agents, !.tools = reg.tools,
                         !.conn[o] = conn0,
                         !.mapState[o] = [i \in MapIdx(config) |-> "pending"],
                         !.mapErr[o] = [i \in MapIdx(config) |-> NoError],
                         !.pc[o] = "routers",
                         !.hist.ranInit[o] = TRUE,
                         !.hist.routed[o] = [i \in 1..Len(config) |->
                                                {h \in Handlers : i \in RoutedTo(config, h)}],
                         !.hist.firstFailure[o] = first,
                         !.hist.openAtFailure[o] = {},
                         !.hist.dispatched[o] =
                             [s \in UNION {MapSlots(config, i) : i \in MapIdx(config)} |->
                                 McpConfigDispatch(SlotServer(config, s))],
                         !.hist.handed[o] =
                             [s \in {t \in Slots(config) :
                                        /\ SlotServer(config, t).type = "auto"
                                        /\ conn0[t] = "connecting"} |->
                                 AutoHandOver(SlotServer(config, s), env)]]
        s2 == IF topRej # {} THEN RejectInit(s1, o, topErr) ELSE s1
        s3 == FailMaps(s2, o, mapRej)
    IN  CheckRouters(s3, o)

-----------------------------------------------------------------------------
(* The calls a caller makes: initialize(), generateResponse(args), close() *)

NoArgs ==
    [filterMCPTools |-> NoFilter, tools |-> EmptyObj,
     model |-> NoModel, system |-> NoSystem, maxSteps |-> NoSteps]

\* one draw of Math.random for each configuration entry
Draws == [1..Len(config) -> RandomIds]

\* calls are numbered in the order they are made; a call is made only
\* when every earlier call has settled (the caller awaits each call)
CanStart(o) ==
    /\ pc[o] = "idle"
    /\ \A p \in Ops : p < o => pc[p] \in {"done", "failed"}

Begin(st, o, k, a) == [st EXCEPT !.kind[o] = k, !.args[o] = a]

CallInitialize ==
    \E o \in Ops, rnd \in Draws :
        /\ CanStart(o)
        /\ Commit(StartInit(Begin(St, o, "initialize", NoArgs), o, rnd))
        /\ UNCHANGED constVars

\* if (!this.initialized) { await this.initialize(); }
GenerateResponseStart(st, o, rnd) ==
    IF ~st.initialized THEN StartInit(st, o, rnd) ELSE Invoke(st, o)

CallGenerateResponse(ArgSet) ==
    \E o \in Ops, a \in ArgSet, rnd \in Draws :
        /\ CanStart(o)
        /\ Commit(GenerateResponseStart(Begin(St, o, "generateResponse", a), o, rnd))
        /\ UNCHANGED constVars

\* "\n\n<Response Format>\n ... </Response Format>\n\n"
ResponseFormat == <<"<Response Format>">>

\* generateObject computes allTools from the registry as it is when the
\* call is made, and passes it to generateResponse as args.tools together
\* with the caller's filter
CallGenerateObject(ArgSet) ==
    \E o \in Ops, a \in ArgSet, rnd \in Draws :
        /\ CanStart(o)
        /\ LET inner ==
                   [filterMCPTools |-> a.filterMCPTools,
                    tools |-> AllTools(tools, a),
                    model |-> Given(OrElse(a.model, "", DefaultModel)),
                    system |-> Given(OrElse(a.system, <<>>, DefaultSystem) \o ResponseFormat),
                    maxSteps |-> Given(OrElse(a.maxSteps, 0, DEFAULT_MAX_STEPS))]
           IN  Commit(GenerateResponseStart(Begin(St, o, "generateObject", inner), o, rnd))
        /\ UNCHANGED constVars

\* a getInfo that leaves out the nested agents
GetInfoWithoutAgents(st) ==
    [name |-> AgentName, description |-> AgentDescription,
     tools |-> DOMAIN st.tools, agents |-> {},
     model |-> DefaultModel, system |-> DefaultSystem]

\* getInfo(): { name, description, tools: Object.keys(this.tools),
\*              agents: Object.keys(this.agents), model, system }
GetInfo(st) ==
    [name |-> AgentName, description |-> AgentDescription,
     tools |-> DOMAIN st.tools, agents |-> DOMAIN st.agents,
     model |-> DefaultModel, system |-> DefaultSystem]

\* getInfo is synchronous: it can be called whatever the calls made
\* before it are waiting for, and returns at once
CallGetInfo ==
    \E o \in Ops :
        /\ pc[o] = "idle"
        /\ \A p \in Ops : p < o => pc[p] # "idle"
        /\ Commit([Begin(St, o, "getInfo", NoArgs) EXCEPT
                       !.pc[o] = "done", !.info[o] = GetInfo(St)])
        /\ UNCHANGED constVars

CallClose ==
    \E o \in Ops :
        /\ CanStart(o)
        /\ Commit(InvokeClose([Begin(St, o, "close", NoArgs) EXCEPT
                                   !.pc[o] = "closing",
                                   !.hist.closeClients[o] = RegistryClients(St),
                                   !.hist.closeAgents[o] = RegistryAgents(St)],
                              <<o, 0>>))
        /\ UNCHANGED constVars

-----------------------------------------------------------------------------
(* Input and output completing *)

MapResolves(st, o, i) ==
    /\ st.mapState[o][i] = "pending"
    /\ \A t \in MapSlots(config, i) : st.conn[o][t] \in Stored

\* createMCPClient resolves: this.clients[name] = client
ConnectOk ==
    \E o \in Ops :
        \E s \in DOMAIN conn[o] :
            /\ conn[o][s] = "connecting"
            /\ LET s1 == [St EXCEPT !.conn[o][s] = "open",
                                    !.clients = Put(clients, SlotServer(config, s).name,
                                                    ClientId(o, s))]
                   s2 == IF s[2] # 0 /\ MapResolves(s1, o, s[1])
                         THEN [s1 EXCEPT !.mapState[o][s[1]] = "resolved"]
                         ELSE s1
               IN  Commit(CheckRouters(s2, o))
            /\ UNCHANGED constVars

\* createMCPClient rejects
ConnectFail ==
    \E o \in Ops :
        \E s \in DOMAIN conn[o] :
            /\ conn[o][s] = "connecting"
            /\ LET err == Err("Connect", SlotServer(config, s).name, <<>>)
                   s1 == [St EXCEPT !.conn[o][s] = "failed",
                                    !.hist.firstFailure[o] =
                                        IF @ = NoError THEN err ELSE @,
                                    !.hist.openAtFailure[o] =
                                        IF hist.firstFailure[o] = NoError
                                        THEN OpenedBy(St, o) ELSE @]
               IN  Commit(IF s[2] = 0 THEN RejectInit(s1, o, err)
                          ELSE IF s1.mapState[o][s[1]] = "pending"
                               THEN MapFail(s1, o, s[1], err)
                               ELSE s1)
            /\ UNCHANGED constVars

\* a merge that keeps the tools of the last client only
MergeServerToolsReplaces(tls, serverTools) == serverTools

\* this.tools = { ...this.tools, ...serverTools }: this.tools is read when
\* the await of client.tools() has completed
MergeServerTools(tls, serverTools) == Spread(tls, serverTools)

\* the registries the pending tool queries can leave, one for each order
\* in which they complete
RECURSIVE MergeOutcomes(_, _)
MergeOutcomes(tls, pending) ==
    IF pending = {} THEN {tls}
    ELSE UNION {MergeOutcomes(MergeServerTools(tls, ServerTools(ClientServer(c))),
                              pending \ {c}) : c \in pending}

\* client.tools() resolves
ToolsOk ==
    \E o \in Ops :
        \E c \in toolq[o] :
            /\ LET s1 == [St EXCEPT !.tools = MergeServerTools(tools, ServerTools(ClientServer(c))),
                                    !.toolq[o] = @ \ {c}]
               IN  Commit(IF s1.pc[o] = "tools" /\ s1.toolq[o] = {}
                          THEN InitDone(s1, o) ELSE s1)
            /\ UNCHANGED constVars

\* client.tools() rejects
ToolsFail ==
    \E o \in Ops :
        \E c \in toolq[o] :
            /\ Commit(RejectInit([St EXCEPT !.toolq[o] = @ \ {c}], o,
                                 Err("Tools", ClientServer(c), <<>>)))
            /\ UNCHANGED constVars

FramesAwaitingClient(st, c) == {f \in DOMAIN st.frames : c \in st.frames[f].c}
FramesAwaitingAgent(st, a) == {f \in DOMAIN st.frames : a \in st.frames[f].a}

\* client.close() resolves
ClientCloseOk ==
    \E o \in Ops :
        \E s \in DOMAIN conn[o] :
            /\ conn[o][s] = "closing"
            /\ LET c == ClientId(o, s)
                   fs == FramesAwaitingClient(St, c)
                   s1 == [St EXCEPT !.conn[o][s] = "closed",
                                    !.frames = [f \in DOMAIN frames |->
                                                   [frames[f] EXCEPT !.c = @ \ {c}]]]
               IN  Commit(CompleteEmpty(s1, fs))
            /\ UNCHANGED constVars

\* client.close() rejects
ClientCloseFail ==
    \E o \in Ops :
        \E s \in DOMAIN conn[o] :
            /\ conn[o][s] = "closing"
            /\ LET c == ClientId(o, s)
                   s1 == [St EXCEPT !.conn[o][s] = "closeFailed"]
               IN  Commit(RejectFrames(s1, FramesAwaitingClient(St, c),
                                       Err("Close", ClientServer(c), <<>>)))
            /\ UNCHANGED constVars

\* a nested agent's close() resolves
NestedCloseOk ==
    \E a \in DOMAIN nested :
        /\ nested[a] = "closing"
        /\ nclients[a] = <<>>
        /\ LET fs == FramesAwaitingAgent(St, a)
               s1 == [St EXCEPT !.nested[a] = "closed",
                                !.frames = [f \in DOMAIN frames |->
                                               [frames[f] EXCEPT !.a = @ \ {a}]]]
           IN  Commit(CompleteEmpty(s1, fs))
        /\ UNCHANGED constVars

\* a nested agent's close() rejects
NestedCloseFail ==
    \E a \in DOMAIN nested :
        /\ nested[a] = "closing"
        /\ nclients[a] = <<>>
        /\ Commit(RejectFrames([St EXCEPT !.nested[a] = "closeFailed"],
                               FramesAwaitingAgent(St, a), Err("Close", a, <<>>)))
        /\ UNCHANGED constVars

\* close() of a client of a nested agent resolves; the nested agent's
\* close() resolves when all of them have
NClientCloseOk ==
    \E a \in DOMAIN nclients :
        \E c \in DOMAIN nclients[a] :
            /\ nclients[a][c] = "closing"
            /\ LET s1 == [St EXCEPT !.nclients[a][c] = "closed"]
                   resolved == /\ nested[a] = "closing"
                               /\ \A d \in DOMAIN nclients[a] : s1.nclients[a][d] = "closed"
                   s2 == [s1 EXCEPT !.nested[a] = "closed",
                                    !.frames = [f \in DOMAIN frames |->
                                                   [frames[f] EXCEPT !.a = @ \ {a}]]]
               IN  Commit(IF resolved THEN CompleteEmpty(s2, FramesAwaitingAgent(St, a))
                          ELSE s1)
            /\ UNCHANGED constVars

\* close() of a client of a nested agent rejects: the nested agent's
\* close() rejects at once, and so does every close() awaiting it
NClientCloseFail ==
    \E a \in DOMAIN nclients :
        \E c \in DOMAIN nclients[a] :
            /\ nclients[a][c] = "closing"
            /\ LET s1 == [St EXCEPT !.nclients[a][c] = "closeFailed"]
               IN  Commit(IF nested[a] = "closing"
                          THEN RejectFrames([s1 EXCEPT !.nested[a] = "closeFailed"],
                                            FramesAwaitingAgent(St, a),
                                            Err("Close", a, <<>>))
                          ELSE s1)
            /\ UNCHANGED constVars

\* generateText resolves: generateResponse returns the post-processed
\* result; generateObject goes on to its structured-extraction call
GenerateTextOk(ResultSet) ==
    \E o \in Ops, res \in ResultSet :
        /\ pc[o] = "invoking"
        /\ Commit([St EXCEPT !.pc[o] = IF kind[o] = "generateObject"
                                       THEN "extracting" ELSE "done",
                             !.response[o] = PostProcess(res),
                             !.hist.modelResult[o] = res])
        /\ UNCHANGED constVars

\* generateText rejects: the error is logged and rethrown
GenerateTextFail ==
    \E o \in Ops :
        /\ pc[o] = "invoking"
        /\ Commit([St EXCEPT !.pc[o] = "failed",
                             !.error[o] = Err("Invocation", "", <<>>)])
        /\ UNCHANGED constVars

\* the structured-extraction call resolves, reporting its own usage
ExtractOk(UsageSet) ==
    \E o \in Ops, u \in UsageSet :
        /\ pc[o] = "extracting"
        /\ Commit([St EXCEPT !.pc[o] = "done",
                             !.objReturn[o] = ObjectReturn(u, response[o].usage),
                             !.hist.objReported[o] = u])
        /\ UNCHANGED constVars

\* the structured-extraction call rejects
ExtractFail ==
    \E o \in Ops :
        /\ pc[o] = "extracting"
        /\ Commit([St EXCEPT !.pc[o] = "failed",
                             !.error[o] = Err("Extraction", "", <<>>)])
        /\ UNCHANGED constVars

\* the model calls an agent tool forwarded to it: execute({ context, prompt })
\* of the tool registered for an agent entry calls the nested agent's
\* generateResponse
ExecuteAgentTool(Contexts, Prompts) ==
    \E o \in Ops, i \in RoutedTo(config, "initializeAgentConfig"),
       context \in Contexts, prompt \in Prompts :
        /\ pc[o] = "invoking"
        /\ \E k \in DOMAIN forwarded[o].tools :
              forwarded[o].tools[k] = Tool("agent", config[i].agent)
        /\ AdapterCall(config[i], context, prompt) \notin hist.adapterCalls
        /\ Commit([St EXCEPT !.hist.adapterCalls =
                                 @ \cup {AdapterCall(config[i], context, prompt)}])
        /\ UNCHANGED constVars

-----------------------------------------------------------------------------
(* MCPAgent: the agent of one server map (src/src/MCPAgent.ts); its server
   map is config[1], its clients and tools are the two registries *)

\* MCPAgent.initialize() up to the point where every pending promise
\* awaits input or output: the switch default throws in the mapped
\* function, Promise.all rejects, and the catch block awaits this.close()
MCPAgentStartInit(st, o) ==
    LET slots == MapSlots(config, 1)
        conn0 == [s \in slots |->
                    IF MCPAgentDispatch(SlotServer(config, s)) = "default"
                    THEN "rejected" ELSE "connecting"]
        rej == {s[2] : s \in {t \in slots : conn0[t] = "rejected"}}
        err == Err("Unsupported", config[1].mcpServers[MinOf(rej)].name, <<>>)
        s1 == [st EXCEPT !.conn[o] = conn0,
                         !.mapState[o] = [i \in {1} |-> "pending"],
                         !.mapErr[o] = [i \in {1} |-> NoError],
                         !.pc[o] = "routers",
                         !.hist.ranInit[o] = TRUE,
                         !.hist.firstFailure[o] = IF rej # {} THEN err ELSE NoError,
                         !.hist.dispatched[o] =
                             [s \in slots |-> MCPAgentDispatch(SlotServer(config, s))]]
    IN  IF rej # {} THEN MapFail(s1, o, 1, err) ELSE s1

\* every mapped function has stored its client and merged its tools
MCPAgentResolves(st, o) ==
    /\ st.mapState[o][1] = "pending"
    /\ \A s \in DOMAIN st.conn[o] : st.conn[o][s] \in Stored
    /\ st.toolq[o] = {}

MCPAgentCheck(st, o) ==
    IF MCPAgentResolves(st, o)
    THEN [st EXCEPT !.mapState[o][1] = "resolved", !.pc[o] = "done",
                    !.hist.initOk[o] = TRUE]
    ELSE st

MCPAgentInitialize ==
    /\ pc[1] = "idle"
    /\ Commit(MCPAgentStartInit(Begin(St, 1, "initialize", NoArgs), 1))
    /\ UNCHANGED constVars

\* createMCPClient resolves: this.clients[name] = client, then
\* this.clients[name].tools() is awaited
MCPAgentConnectOk ==
    \E o \in Ops :
        \E s \in DOMAIN conn[o] :
            /\ conn[o][s] = "connecting"
            /\ LET name == SlotServer(config, s).name
                   cs == Put(clients, name, ClientId(o, s))
               IN  Commit([St EXCEPT !.conn[o][s] = "open", !.clients = cs,
                                     !.toolq[o] = @ \cup {cs[name]}])
            /\ UNCHANGED constVars

\* createMCPClient rejects
MCPAgentConnectFail ==
    \E o \in Ops :
        \E s \in DOMAIN conn[o] :
            /\ conn[o][s] = "connecting"
            /\ LET err == Err("Connect", SlotServer(config, s).name, <<>>)
                   s1 == [St EXCEPT !.conn[o][s] = "failed",
                                    !.hist.firstFailure[o] =
                                        IF @ = NoError THEN err ELSE @]
               IN  Commit(IF mapState[o][1] = "pending"
                          THEN MapFail(s1, o, 1, err) ELSE s1)
            /\ UNCHANGED constVars

\* client.tools() resolves: this.tools = { ...this.tools, ...serverTools }
MCPAgentToolsOk ==
    \E o \in Ops :
        \E c \in toolq[o] :
            /\ Commit(MCPAgentCheck(
                   [St EXCEPT !.tools = MergeServerTools(tools, ServerTools(ClientServer(c))),
                              !.toolq[o] = @ \ {c}], o))
            /\ UNCHANGED constVars

\* client.tools() rejects
MCPAgentToolsFail ==
    \E o \in Ops :
        \E c \in toolq[o] :
            /\ LET err == Err("Tools", ClientServer(c), <<>>)
                   s1 == [St EXCEPT !.toolq[o] = @ \ {c},
                                    !.hist.firstFailure[o] =
                                        IF @ = NoError THEN err ELSE @]
               IN  Commit(IF mapState[o][1] = "pending"
                          THEN MapFail(s1, o, 1, err) ELSE s1)
            /\ UNCHANGED constVars

-----------------------------------------------------------------------------
(* The agent after construction *)

NestedOf(cfg) == {cfg[i].agent : i \in {j \in 1..Len(cfg) : cfg[j].tag = "agent"}}

NoObject ==
    [usage |-> Usage(0, 0, 0), textGenerationUsage |-> Usage(0, 0, 0),
     objectGenerationUsage |-> Usage(0, 0, 0)]

AgentInit(cfg, e) ==
    /\ config = cfg
    /\ env = e
    /\ clients = EmptyObj
    /\ tools = EmptyObj
    /\ agents = EmptyObj
    /\ initialized = FALSE
    /\ conn = [o \in Ops |-> <<>>]
    /\ nested = [a \in NestedOf(cfg) |-> "open"]
    /\ kind = [o \in Ops |-> "none"]
    /\ args = [o \in Ops |-> NoArgs]
    /\ pc = [o \in Ops |-> "idle"]
    /\ mapState = [o \in Ops |-> <<>>]
    /\ mapErr = [o \in Ops |-> <<>>]
    /\ toolq = [o \in Ops |-> {}]
    /\ frames = <<>>
    /\ error = [o \in Ops |-> NoError]
    /\ forwarded = [o \in Ops |-> NoCall]
    /\ response = [o \in Ops |-> NoResponse]
    /\ objReturn = [o \in Ops |-> NoObject]
    /\ info = [o \in Ops |-> NoInfo]
    /\ hist = [ranInit |-> [o \in Ops |-> FALSE],
               initOk |-> [o \in Ops |-> FALSE],
               issued |-> [o \in Ops |-> FALSE],
               invokedInit |-> [o \in Ops |-> FALSE],
               filtered |-> [o \in Ops |-> EmptyObj],
               toolsBeforeFilter |-> [o \in Ops |-> EmptyObj],
               routed |-> [o \in Ops |-> <<>>],
               closeInvoked |-> [o \in Ops |-> FALSE],
               closeClients |-> [o \in Ops |-> {}],
               closeAgents |-> [o \in Ops |-> {}],
               firstFailure |-> [o \in Ops |-> NoError],
               openAtFailure |-> [o \in Ops |-> {}],
               handed |-> [o \in Ops |-> <<>>],
               dispatched |-> [o \in Ops |-> <<>>],
               adapterCalls |-> {},
               openAtReject |-> [o \in Ops |-> {}],
               connectingAtReject |-> [o \in Ops |-> {}],
               pendingAtSettle |-> [o \in Ops |-> {}],
               modelResult |-> [o \in Ops |-> NoResponse],
               objReported |-> [o \in Ops |-> Usage(0, 0, 0)]]

-----------------------------------------------------------------------------
(* The life of one agent: construction, then calls made one after another *)

ParamKeys == {"K1"}

AutoMemory == AutoEntry("memory", <<Param("K1", TRUE)>>, "stdio")
MapFetch == MapEntry(<<Server("fetch", "stdio", <<>>, "")>>)
MapMemoryKb ==
    MapEntry(<<Server("memory", "sse", <<>>, ""),
               Server("kb", "auto", <<Param("K1", TRUE)>>, "stdio")>>)
ToolCalc == ToolEntry(<<"A", "b">>)
AgentNamer == AgentEntry(NoName, "namer", <<"b", " ", "A">>)

\* a server map that carries a type property the router does not know
MapTyped == [MapEntry(<<Server("docs", "sse", <<>>, "")>>) EXCEPT !.tag = "mcp"]

EntryPool == {AutoMemory, MapFetch, MapMemoryKb, ToolCalc, AgentNamer}

\* the configuration lists of the agents whose whole life is followed
Configs ==
    {<<>>, <<AutoMemory>>, <<MapFetch>>, <<AgentNamer, ToolCalc>>}

TextOk ==
    [text |-> "ok", finishReason |-> "stop", usage |-> Usage(1, 1, 2), toolCalls |-> 0]

Init ==
    /\ \E cfg \in Configs, e \in [ParamKeys -> {"unset", "set"}] : AgentInit(cfg, e)
    /\ nclients = [a \in DOMAIN nested |-> <<>>]

\* the calls made so far
CallsMade == Cardinality({o \in Ops : pc[o] # "idle"})

Next ==
    \/ CallsMade < MaxCalls /\ CallInitialize
    \/ CallsMade < MaxCalls /\ CallGenerateResponse({NoArgs})
    \/ CallsMade < MaxCalls /\ CallClose
    \/ ConnectOk
    \/ ConnectFail
    \/ ToolsOk
    \/ ToolsFail
    \/ ClientCloseOk
    \/ ClientCloseFail
    \/ NestedCloseOk
    \/ NestedCloseFail
    \/ GenerateTextOk({TextOk})
    \/ GenerateTextFail

Spec == Init /\ [][Next]_vars

-----------------------------------------------------------------------------
(* One initialize() call on a new agent, for every configuration list *)

\* toolsConfigs || []
InitConfigs == UNION {[1..n -> EntryPool] : n \in 0..MaxEntries}

InitOne ==
    /\ \E cfg \in InitConfigs, e \in [ParamKeys -> EnvValues] : AgentInit(cfg, e)
    /\ nclients = [a \in DOMAIN nested |-> <<>>]

CallInitializeOnce == pc[1] = "idle" /\ CallInitialize

NextOne ==
    \/ CallInitializeOnce
    \/ ConnectOk
    \/ ConnectFail
    \/ ToolsOk
    \/ ToolsFail
    \/ ClientCloseOk
    \/ ClientCloseFail
    \/ NestedCloseOk
    \/ NestedCloseFail

SpecInit == InitOne /\ [][NextOne]_vars

-----------------------------------------------------------------------------
(* One initialize() call on a new agent, for every list of entries of the
   four kinds the router tells apart *)

RoutePool == {AutoMemory, MapTyped, ToolCalc, AgentNamer}

InitRoute ==
    /\ \E cfg \in UNION {[1..n -> RoutePool] : n \in 0..MaxEntries},
          e \in [ParamKeys -> {"unset", "set"}] : AgentInit(cfg, e)
    /\ nclients = [a \in DOMAIN nested |-> <<>>]

SpecRoute == InitRoute /\ [][NextOne]_vars

-----------------------------------------------------------------------------
(* One initialize() call on a new agent whose clients are queried for
   their tools side by side, with inline and agent tools registered before *)

DiscoveryConfigs ==
    {<<ToolCalc, MapMemoryKb>>, <<AgentNamer, MapMemoryKb>>, <<AutoMemory, MapFetch>>,
     <<MapMemoryKb, MapFetch>>}

InitDiscovery ==
    /\ \E cfg \in DiscoveryConfigs, e \in [ParamKeys -> {"unset", "set"}] : AgentInit(cfg, e)
    /\ nclients = [a \in DOMAIN nested |-> <<>>]

SpecDiscovery == InitDiscovery /\ [][NextOne]_vars

-----------------------------------------------------------------------------
(* One generateResponse(args) call on a new agent, for every filter, every
   set of ad hoc tools and every result of the model invocation *)

GenConfigs == {<<ToolCalc>>, <<AgentNamer, MapMemoryKb>>}

AdHoc == Tool("adhoc", "adhoc")
NameNew == <<"n", "e", "w">>

\* every tool value a registry of GenConfigs or a caller can hold
ToolValues ==
    {Tool("server", "memory"), Tool("server", "kb"), Tool("inline", "inline"),
     Tool("agent", "namer"), AdHoc}

GenFilters ==
    {NoFilter, Predicate({}), Predicate({Tool("server", "memory")}),
     Predicate({Tool("server", "kb"), Tool("inline", "inline")}),
     Predicate(ToolValues \ {AdHoc}), Predicate({Tool("agent", "namer"), AdHoc})}

\* args.tools: some of them under the name of a discovered tool
GenAdHocTools == {[k \in K |-> AdHoc] : K \in SUBSET {NameGet, NameNew}}

GenArgs ==
    [filterMCPTools : GenFilters, tools : GenAdHocTools,
     model : {NoModel}, system : {NoSystem}, maxSteps : {NoSteps}]

FinishReasons == {"stop", "tool-calls", "length", "error"}

GenResults ==
    [text : {"", "hi"}, finishReason : FinishReasons, usage : {Usage(1, 1, 2)},
     toolCalls : {0, 1}]

InitGen ==
    /\ \E cfg \in GenConfigs, e \in [ParamKeys -> {"unset", "set"}] : AgentInit(cfg, e)
    /\ nclients = [a \in DOMAIN nested |-> <<>>]

CallGenerateResponseOnce == pc[1] = "idle" /\ CallGenerateResponse(GenArgs)

NextGen ==
    \/ CallGenerateResponseOnce
    \/ ConnectOk
    \/ ConnectFail
    \/ ToolsOk
    \/ ToolsFail
    \/ ClientCloseOk
    \/ ClientCloseFail
    \/ NestedCloseOk
    \/ NestedCloseFail
    \/ GenerateTextOk(GenResults)
    \/ GenerateTextFail

SpecGen == InitGen /\ [][NextGen]_vars

-----------------------------------------------------------------------------
(* One generateObject(args) call on a new agent, for every usage the two
   sub-calls can report *)

Usages == [promptTokens : 0..MaxTok, completionTokens : 0..MaxTok, totalTokens : 0..MaxTok]

ObjTextResults ==
    [text : {"hi"}, finishReason : {"stop"}, usage : Usages, toolCalls : {0}]

InitObj ==
    /\ \E cfg \in {<<>>, <<ToolCalc>>} : AgentInit(cfg, [k \in ParamKeys |-> "set"])
    /\ nclients = [a \in DOMAIN nested |-> <<>>]

CallGenerateObjectOnce == pc[1] = "idle" /\ CallGenerateObject({NoArgs})

NextObj ==
    \/ CallGenerateObjectOnce
    \/ GenerateTextOk(ObjTextResults)
    \/ GenerateTextFail
    \/ ExtractOk(Usages)
    \/ ExtractFail

SpecObj == InitObj /\ [][NextObj]_vars

-----------------------------------------------------------------------------
(* One initialize() call on an agent configured with one auto-resolved
   descriptor, for every parameter list and every environment *)

AutoKeys == {"K1", "K2", "K3"}

ParamLists ==
    {ps \in UNION {[1..n -> [key : AutoKeys, required : BOOLEAN]] : n \in 0..MaxParams} :
        \A i, j \in 1..Len(ps) : ps[i].key = ps[j].key => i = j}

InitAuto ==
    /\ \E ps \in ParamLists, e \in [AutoKeys -> EnvValues] :
            AgentInit(<<AutoEntry("memory", ps, "stdio")>>, e)
    /\ nclients = [a \in DOMAIN nested |-> <<>>]

NextAuto ==
    \/ CallInitializeOnce
    \/ ConnectOk
    \/ ConnectFail
    \/ ToolsOk
    \/ ToolsFail

SpecAuto == InitAuto /\ [][NextAuto]_vars

-----------------------------------------------------------------------------
(* A parent agent with two nested agents that own clients: initialize()
   and close() calls made one after another *)

AgentHelper == AgentEntry(NoName, "helper", <<"b">>)

NestedClientLists == {[c \in 1..n |-> "open"] : n \in 1..MaxNestedClients}

InitClose ==
    /\ AgentInit(<<AgentNamer, AgentHelper>>, [k \in ParamKeys |-> "set"])
    /\ nclients \in [DOMAIN nested -> NestedClientLists]

NextClose ==
    \/ CallInitialize
    \/ CallClose
    \/ NClientCloseOk
    \/ NClientCloseFail

SpecClose == InitClose /\ [][NextClose]_vars

-----------------------------------------------------------------------------
(* One initialize() call on an agent configured with one agent-as-tool
   entry, listed one or more times, for every override name *)

TextEntries ==
    {AgentEntry(cname, "namer", an) :
        cname \in StrUpTo(MaxNameLen), an \in {NoName, <<"A", " ", "b">>}}

InitText ==
    /\ \E entry \in TextEntries, n \in 1..MaxRegs :
            AgentInit([i \in 1..n |-> entry], [k \in ParamKeys |-> "set"])
    /\ nclients = [a \in DOMAIN nested |-> <<>>]

NextText == CallInitializeOnce

SpecText == InitText /\ [][NextText]_vars

-----------------------------------------------------------------------------
(* An agent that is initialized, closed and then used again: initialize(),
   then close(), then generateResponse calls, each made when the call
   before it has settled *)

ReuseConfigs ==
    {<<MapFetch>>, <<AgentNamer, ToolCalc>>, <<AutoMemory, MapMemoryKb>>}

ReuseArgs ==
    [filterMCPTools : {NoFilter}, tools : {EmptyObj, [k \in {NameNew} |-> AdHoc]},
     model : {NoModel}, system : {NoSystem}, maxSteps : {NoSteps}]

InitReuse ==
    /\ \E cfg \in ReuseConfigs : AgentInit(cfg, [k \in ParamKeys |-> "set"])
    /\ nclients = [a \in DOMAIN nested |-> <<>>]

CallCloseSecond == pc[1] = "done" /\ pc[2] = "idle" /\ CallClose

CallGenerateResponseLater == pc[2] # "idle" /\ CallGenerateResponse(ReuseArgs)

NextReuse ==
    \/ CallInitializeOnce
    \/ CallCloseSecond
    \/ CallGenerateResponseLater
    \/ ConnectOk
    \/ ConnectFail
    \/ ToolsOk
    \/ ToolsFail
    \/ ClientCloseOk
    \/ ClientCloseFail
    \/ NestedCloseOk
    \/ NestedCloseFail
    \/ GenerateTextOk({TextOk})
    \/ GenerateTextFail

SpecReuse == InitReuse /\ [][NextReuse]_vars

-----------------------------------------------------------------------------
(* Calls that overlap: initialize() and generateResponse calls made without
   awaiting the calls made before them *)

\* calls are numbered in the order they are made
CanStartOverlapping(o) ==
    /\ pc[o] = "idle"
    /\ \A p \in Ops : p < o => pc[p] # "idle"

CallInitializeOverlapping ==
    \E o \in Ops, rnd \in Draws :
        /\ CanStartOverlapping(o)
        /\ Commit(StartInit(Begin(St, o, "initialize", NoArgs), o, rnd))
        /\ UNCHANGED constVars

CallGenerateResponseOverlapping ==
    \E o \in Ops, rnd \in Draws :
        /\ CanStartOverlapping(o)
        /\ Commit(GenerateResponseStart(Begin(St, o, "generateResponse", NoArgs), o, rnd))
        /\ UNCHANGED constVars

InitOverlap ==
    /\ \E cfg \in {<<AutoMemory>>, <<MapFetch>>} : AgentInit(cfg, [k \in ParamKeys |-> "set"])
    /\ nclients = [a \in DOMAIN nested |-> <<>>]

NextOverlap ==
    \/ CallsMade < MaxCalls /\ CallInitializeOverlapping
    \/ CallsMade < MaxCalls /\ CallGenerateResponseOverlapping
    \/ ConnectOk
    \/ ConnectFail
    \/ ToolsOk
    \/ ToolsFail
    \/ ClientCloseOk
    \/ ClientCloseFail
    \/ GenerateTextOk({TextOk})
    \/ GenerateTextFail

SpecOverlap == InitOverlap /\ [][NextOverlap]_vars

-----------------------------------------------------------------------------
(* One generateResponse(args) call on a new agent, for every model, system
   prompt and step cap the caller can pass or leave out *)

OverrideArgs ==
    [filterMCPTools : {NoFilter}, tools : {EmptyObj},
     model : {NoModel, Given("caller-model")},
     system : {NoSystem, Given(<<>>), Given(<<"caller-system">>)},
     maxSteps : {NoSteps} \cup {Given(n) : n \in 0..MaxStepsArg}]

InitOverride ==
    /\ \E cfg \in {<<>>, <<ToolCalc>>} : AgentInit(cfg, [k \in ParamKeys |-> "set"])
    /\ nclients = [a \in DOMAIN nested |-> <<>>]

CallGenerateResponseOverride == pc[1] = "idle" /\ CallGenerateResponse(OverrideArgs)

NextOverride ==
    \/ CallGenerateResponseOverride
    \/ GenerateTextOk({TextOk})
    \/ GenerateTextFail

SpecOverride == InitOverride /\ [][NextOverride]_vars

-----------------------------------------------------------------------------
(* An agent that is read and used: initialize(), then generateResponse and
   generateObject calls made one after another, with getInfo() called at
   any moment *)

InitFrame ==
    /\ \E cfg \in {<<MapFetch>>, <<AgentNamer, ToolCalc>>} :
            AgentInit(cfg, [k \in ParamKeys |-> "set"])
    /\ nclients = [a \in DOMAIN nested |-> <<>>]

CallGenerateResponseAfter == pc[1] # "idle" /\ CallGenerateResponse({NoArgs})

CallGenerateObjectAfter == pc[1] # "idle" /\ CallGenerateObject({NoArgs})

NextFrame ==
    \/ CallInitializeOnce
    \/ CallGetInfo
    \/ CallGenerateResponseAfter
    \/ CallGenerateObjectAfter
    \/ ConnectOk
    \/ ConnectFail
    \/ ToolsOk
    \/ ToolsFail
    \/ ClientCloseOk
    \/ ClientCloseFail
    \/ GenerateTextOk({TextOk})
    \/ GenerateTextFail
    \/ ExtractOk({Usage(1, 1, 2)})
    \/ ExtractFail

SpecFrame == InitFrame /\ [][NextFrame]_vars

-----------------------------------------------------------------------------
(* One initialize() call on an agent configured with one auto-resolved
   descriptor, for every list of underlying descriptors with env entries
   of their own *)

MergeKeys == {"K1", "K2"}

OwnValue(key) == <<"own", key>>

\* env of an underlying descriptor: none, or entries of its own, one of
\* them under the key of a declared parameter
OwnEnvs == {<<>>, [k \in {"OWN", "K1"} |-> OwnValue(k)]}

Descriptors == {Descriptor(t, oe) : t \in {"", "stdio", "sse"}, oe \in OwnEnvs}

MergeParamLists ==
    {ps \in UNION {[1..n -> [key : MergeKeys, required : BOOLEAN]] : n \in 0..MaxParams} :
        \A i, j \in 1..Len(ps) : ps[i].key = ps[j].key => i = j}

InitMerge ==
    /\ \E ps \in MergeParamLists,
          ds \in UNION {[1..n -> Descriptors] : n \in 1..MaxDescriptors},
          e \in [MergeKeys -> {"unset", "set"}] :
            AgentInit(<<AutoEntryOf("memory", ps, ds)>>, e)
    /\ nclients = [a \in DOMAIN nested |-> <<>>]

SpecMerge == InitMerge /\ [][NextAuto]_vars

-----------------------------------------------------------------------------
(* A parent agent with two nested agents, for every override name and
   every agent name: initialize(), then close() *)

NestedNames == {NoName, <<"A">>, <<"a">>, <<"b">>}

NestedConfigs ==
    {<<AgentEntry(c1, "namer", n1), AgentEntry(c2, "helper", n2)>> :
        c1 \in {NoName, <<"A">>}, c2 \in {NoName, <<"a">>},
        n1 \in NestedNames, n2 \in NestedNames}

InitNested ==
    /\ \E cfg \in NestedConfigs : AgentInit(cfg, [k \in ParamKeys |-> "set"])
    /\ nclients = [a \in DOMAIN nested |-> <<>>]

NextNested ==
    \/ CallInitializeOnce
    \/ CallCloseSecond
    \/ NestedCloseOk
    \/ NestedCloseFail

SpecNested == InitNested /\ [][NextNested]_vars

-----------------------------------------------------------------------------
(* One initialize() call on a new MCPAgent, for every server map whose
   servers carry any of the type discriminators *)

ServerTypes == {"", "stdio", "sse", "auto", "http"}

\* a server of a server map with the given type property; an auto
\* descriptor declares an optional parameter and one underlying descriptor
TypedServer(name, type) ==
    [name |-> name, type |-> type,
     parameters |-> IF type = "auto" THEN <<Param("K1", FALSE)>> ELSE <<>>,
     mcpConfig |-> IF type = "auto" THEN <<Descriptor("stdio", <<>>)>> ELSE <<>>]

TypedMaps ==
    {MapEntry(<<TypedServer("fetch", t)>>) : t \in ServerTypes}
    \cup {MapEntry(<<TypedServer("fetch", t), TypedServer("docs", u)>>) :
             t \in ServerTypes, u \in ServerTypes}

InitMCPAgent ==
    /\ \E m \in TypedMaps : AgentInit(<<m>>, [k \in ParamKeys |-> "set"])
    /\ nclients = [a \in DOMAIN nested |-> <<>>]

NextMCPAgent ==
    \/ MCPAgentInitialize
    \/ MCPAgentConnectOk
    \/ MCPAgentConnectFail
    \/ MCPAgentToolsOk
    \/ MCPAgentToolsFail
    \/ ClientCloseOk
    \/ ClientCloseFail

SpecMCPAgent == InitMCPAgent /\ [][NextMCPAgent]_vars

-----------------------------------------------------------------------------
(* One generateResponse call on a parent agent with one agent-as-tool
   entry, for every message list of its pass-through options; the model
   calls the agent tool any number of times *)

AdapterMessages == {NoMessages, MessageList(<<>>), MessageList(<<"m">>)}

AdapterTexts == {"", "x"}

InitAdapter ==
    /\ \E ms \in AdapterMessages, cfg \in {<<>>, <<ToolCalc>>} :
            AgentInit(<<AgentEntryWith(NoName, "namer", <<"b">>, ms)>> \o cfg,
                      [k \in ParamKeys |-> "set"])
    /\ nclients = [a \in DOMAIN nested |-> <<>>]

NextAdapter ==
    \/ CallGenerateResponseOnce
    \/ ExecuteAgentTool(AdapterTexts, AdapterTexts)
    \/ GenerateTextOk({TextOk})
    \/ GenerateTextFail

SpecAdapter == InitAdapter /\ [][NextAdapter]_vars

-----------------------------------------------------------------------------
(* An agent with two clients and a nested agent: initialize(), then close()
   calls made one after another, each when the call before it has settled *)

InitCloseAgain ==
    /\ AgentInit(<<AgentNamer, MapMemoryKb>>, [k \in ParamKeys |-> "set"])
    /\ nclients = [a \in DOMAIN nested |-> <<>>]

CallCloseAfter == pc[1] = "done" /\ CallClose

NextCloseAgain ==
    \/ CallInitializeOnce
    \/ CallCloseAfter
    \/ ConnectOk
    \/ ConnectFail
    \/ ToolsOk
    \/ ToolsFail
    \/ ClientCloseOk
    \/ ClientCloseFail
    \/ NestedCloseOk
    \/ NestedCloseFail

SpecCloseAgain == InitCloseAgain /\ [][NextCloseAgain]_vars

-----------------------------------------------------------------------------
(* Claims *)

GenOps == {o \in Ops : kind[o] = "generateResponse"}
InitOkBefore(p) == \E o \in Ops : o < p /\ hist.initOk[o]

\* C1 (as stated): with calls made one after another, a generateResponse
\* that runs initialize issues its model invocation only after that
\* initialize has completed, and no generateResponse made after it runs
\* initialize again.
C1_NeverInitializesAgain ==
    \A o \in GenOps :
        hist.ranInit[o] =>
            /\ hist.issued[o] => hist.initOk[o] /\ hist.invokedInit[o]
            /\ \A p \in GenOps : (p > o /\ hist.issued[p]) => ~hist.ranInit[p]

\* C1 (amended): with calls made one after another, a generateResponse runs
\* initialize exactly when no earlier call's initialize has completed (a
\* rejected initialize leaves the agent uninitialized, and the next
\* generateResponse runs initialize again); its model invocation is issued
\* only on an initialized agent, after an initialize that completed.
C1_InitializesUntilOneCompletes ==
    \A p \in GenOps :
        /\ hist.ranInit[p] <=> ~InitOkBefore(p)
        /\ hist.issued[p] =>
              /\ hist.invokedInit[p]
              /\ InitOkBefore(p) \/ hist.initOk[p]

\* two generateResponse calls: the first ran initialize, connected a
\* server and issued its model invocation, the second issued its own
\* without initializing
C1_Witness ==
    /\ GenOps = {1, 2}
    /\ hist.ranInit[1] /\ hist.initOk[1] /\ pc[1] = "done"
    /\ clients # EmptyObj
    /\ ~hist.ranInit[2] /\ hist.issued[2]

InitializerErrors == {"MissingEnv", "Unsupported", "Connect"}

\* C10: when initialize rejects with the error of a subprocess,
\* network-stream or auto-resolved initializer, close() has been called on
\* every client that was open when the first initializer failed, and the
\* error is that of the initializer that failed first.
C10_ClosesOpenedThenRethrows ==
    \A o \in Ops :
        (pc[o] = "failed" /\ hist.ranInit[o] /\ error[o].kind \in InitializerErrors) =>
            /\ hist.openAtFailure[o] \cap hist.openAtReject[o] = {}
            /\ error[o] = hist.firstFailure[o]


Settled(o) == pc[o] \in {"done", "failed"}

\* C2: the usage generateObject returns is, field by field, the usage the
\* text-generation sub-call reported plus the usage the
\* structured-extraction sub-call itself reported.
C2_UsageIsSumOfSubCalls ==
    \A o \in Ops :
        (kind[o] = "generateObject" /\ pc[o] = "done") =>
            objReturn[o].usage = AddUsage(hist.modelResult[o].usage, hist.objReported[o])

\* C3: when a close() of the parent settles, no client of a nested agent
\* is still closing: the close of every nested client has completed.
C3_CloseWaitsForAllNested ==
    \A o \in Ops :
        (kind[o] = "close" /\ Settled(o)) => hist.pendingAtSettle[o] = {}

InitializedOnce == kind[1] = "initialize" /\ pc[1] # "idle"
RequiredKeys == {config[1].parameters[i].key :
                    i \in {j \in 1..Len(config[1].parameters) : config[1].parameters[j].required}}
Named == {error[1].names[i] : i \in 1..Len(error[1].names)}
RejectsNaming(M) ==
    /\ pc[1] = "failed"
    /\ error[1].kind = "MissingEnv"
    /\ Named = M

\* C4 (as stated): if some required parameter of the descriptor has no
\* variable in the environment, initialize rejects with an error naming
\* exactly the required parameters that have no variable.
C4_NamesExactlyTheAbsent ==
    LET M == {k \in RequiredKeys : env[k] = "unset"}
    IN  (InitializedOnce /\ M # {}) => RejectsNaming(M)

\* C4 (amended): if some required parameter of the descriptor has no
\* variable in the environment, or has one whose value is the empty
\* string, initialize rejects with an error naming exactly the required
\* parameters whose variable is unset or empty.
C4_NamesExactlyTheUnsetOrEmpty ==
    LET M == {k \in RequiredKeys : env[k] \in {"unset", "empty"}}
    IN  (InitializedOnce /\ M # {}) => RejectsNaming(M)

\* initialize rejected naming two parameters, one unset and one empty,
\* and leaving out a required parameter whose variable is set
C4_Witness ==
    /\ InitializedOnce
    /\ pc[1] = "failed"
    /\ Cardinality(Named) = 2
    /\ \E k \in Named : env[k] = "unset"
    /\ \E k \in Named : env[k] = "empty"

NamedEntry == config[1].cname # NoName \/ config[1].agentName # NoName

\* C5: after the agent-as-tool entries are registered, an entry with a
\* non-empty override name or agent name has one tool name however many
\* times it is registered, and that name has no uppercase letter and no
\* space.
C5_ToolNameNormalized ==
    (pc[1] = "done" /\ NamedEntry) =>
        /\ Cardinality(DOMAIN tools) = 1
        /\ \A t \in DOMAIN tools :
              \A k \in 1..Len(t) : t[k] \notin UpperCase \cup {" "}

\* C6: the filtered mapping has exactly the keys of the registry whose tool
\* the predicate accepts, each with the registry's tool; with no predicate
\* it equals the registry.
C6_FilterKeepsExactlyAccepted ==
    \A o \in Ops :
        hist.issued[o] =>
            LET P == args[o].filterMCPTools
                F == hist.filtered[o]
            IN  /\ DOMAIN F = {k \in DOMAIN tools : P.given => tools[k] \in P.accepts}
                /\ \A k \in DOMAIN F : F[k] = tools[k]
                /\ ~P.given => F = tools

\* a predicate was given that keeps one registered tool and drops another
C6_Witness ==
    \E o \in Ops :
        /\ hist.issued[o]
        /\ args[o].filterMCPTools.given
        /\ DOMAIN hist.filtered[o] # {}
        /\ DOMAIN hist.filtered[o] # DOMAIN tools

\* C7: the tools forwarded to the model invocation are the registered
\* tools the predicate accepts (all without a predicate) together with
\* every ad hoc tool; under a name both have, the ad hoc tool is forwarded.
C7_ForwardedToolSet ==
    \A o \in Ops :
        hist.issued[o] =>
            LET P == args[o].filterMCPTools
                adhoc == args[o].tools
                fw == forwarded[o].tools
            IN  /\ DOMAIN fw = {k \in DOMAIN tools : P.given => tools[k] \in P.accepts}
                                   \cup DOMAIN adhoc
                /\ \A k \in DOMAIN fw :
                      fw[k] = IF k \in DOMAIN adhoc THEN adhoc[k] ELSE tools[k]

\* an ad hoc tool under the name of a registered tool the predicate
\* accepts, and a predicate that rejects the ad hoc tool itself
C7_Witness ==
    \E o \in Ops :
        /\ hist.issued[o]
        /\ args[o].filterMCPTools.given
        /\ AdHoc \notin args[o].filterMCPTools.accepts
        /\ \E k \in DOMAIN args[o].tools \cap DOMAIN hist.filtered[o] :
              forwarded[o].tools[k] = AdHoc
        /\ DOMAIN hist.filtered[o] # DOMAIN tools

Returned(o) == kind[o] = "generateResponse" /\ pc[o] = "done"

C9_SubstitutesExactlyAfterToolCalls ==
    \A o \in Ops :
        Returned(o) =>
            LET m == hist.modelResult[o]
                r == response[o]
                sub == m.text = "" /\ m.finishReason = "tool-calls"
            IN  /\ r.text = FixedSentence <=> sub
                /\ ~sub => r = m
                /\ r.finishReason = m.finishReason
                /\ r.usage = m.usage
                /\ r.toolCalls = m.toolCalls

\* the substitution happened on a result that made tool calls
C9_Witness ==
    /\ Returned(1)
    /\ hist.modelResult[1].text = ""
    /\ hist.modelResult[1].toolCalls = 1
    /\ response[1].text = FixedSentence
    /\ response[1].finishReason = "tool-calls"

Resolves(o, k) == kind'[o] = k /\ pc[o] # "done" /\ pc'[o] = "done"

\* C11: in the step in which a close() resolves, close() has been invoked
\* on every client and every nested agent that was in the registries when
\* it was called (each has closed), and both registries are left empty.
C11_CloseReleasesRegistries ==
    [][\A o \in Ops :
          Resolves(o, "close") =>
              /\ \A c \in hist'.closeClients[o] : conn'[c[1]][<<c[2], c[3]>>] = "closed"
              /\ \A a \in hist'.closeAgents[o] : nested'[a] = "closed"
              /\ clients' = EmptyObj
              /\ agents' = EmptyObj]_vars

\* a close() that was called with a client in the registry has resolved
C11_Witness ==
    \E o \in Ops :
        /\ kind[o] = "close" /\ pc[o] = "done"
        /\ hist.closeClients[o] # {}
        /\ clients = EmptyObj

\* a close() resolved before call p was made, on an agent that an earlier
\* initialize had initialized
ClosedBefore(p) ==
    \E c \in Ops :
        /\ c < p /\ kind[c] = "close" /\ pc[c] = "done"
        /\ \E i \in Ops : i < c /\ hist.initOk[i]

\* C12: a generateResponse made after a close() of an initialized agent
\* finds the flag set, does not run initialize, and forwards to the model
\* invocation the caller's ad hoc tools and nothing else.
C12_NoToolsAfterClose ==
    \A p \in GenOps :
        (ClosedBefore(p) /\ hist.issued[p]) =>
            /\ hist.invokedInit[p]
            /\ ~hist.ranInit[p]
            /\ forwarded[p].tools = args[p].tools

\* the calls whose initialize created a transport for server slot s
ConnectedBy(s) == {o \in Ops : s \in DOMAIN conn[o] /\ conn[o][s] # "rejected"}

\* C13: whatever the order of initialize() and generateResponse calls,
\* overlapping or not, each configured server is connected by at most one
\* of them.
C13_EachServerConnectedOnce ==
    \A s \in Slots(config) : Cardinality(ConnectedBy(s)) <= 1

ExpectedHandler(entry) ==
    IF entry.tag = "auto" THEN "initializeAutoServer"
    ELSE IF entry.tag = "agent" THEN "initializeAgentConfig"
    ELSE IF entry.tag = "tool" THEN "tool"
    ELSE "initializeMcpConfig"

\* C14: an initialize hands every entry of the configuration list to one
\* handler, the one of its tag (server-map fan-out for every tag other
\* than auto, agent and tool); only auto entries get a transport of their
\* own, only fan-out entries get a server map to await, and every tool and
\* agent entry has its tool in the tool registry.
C14_RouterTotalAndExclusive ==
    \A o \in Ops :
        hist.ranInit[o] =>
            /\ DOMAIN hist.routed[o] = 1..Len(config)
            /\ \A i \in 1..Len(config) :
                  /\ hist.routed[o][i] = {ExpectedHandler(config[i])}
                  /\ <<i, 0>> \in DOMAIN conn[o] <=> config[i].tag = "auto"
                  /\ i \in DOMAIN mapState[o] <=> config[i].tag \notin {"auto", "agent", "tool"}
                  /\ config[i].tag = "tool" =>
                        ToSnakeCase(config[i].cname, <<>>) \in DOMAIN tools
                  /\ config[i].tag = "agent" =>
                        \E k \in DOMAIN tools : tools[k] = Tool("agent", config[i].agent)

\* an initialize has routed an inline tool next to a server map whose
\* type property is unknown to the router
C14_Witness ==
    /\ hist.ranInit[1]
    /\ Len(config) = 2
    /\ config[1].tag = "tool"
    /\ config[2].tag = "mcp"
    /\ DOMAIN mapState[1] = {2}

\* the caller's value when the caller gave one, else the default
OverrideElse(x, default) == IF x.given THEN x.value ELSE default

\* C15: the model, the system prompt and the step cap forwarded to the
\* model invocation are the caller's whenever the caller gave one (a step
\* cap of 0 and an empty system prompt included), else the agent's model,
\* the agent's system prompt and the fixed default step cap.
C15_CallerOverridesWin ==
    \A o \in GenOps :
        hist.issued[o] =>
            /\ forwarded[o].model = OverrideElse(args[o].model, DefaultModel)
            /\ forwarded[o].system = OverrideElse(args[o].system, DefaultSystem)
            /\ forwarded[o].maxSteps = OverrideElse(args[o].maxSteps, DEFAULT_MAX_STEPS)

Readers == {"getInfo", "generateResponse", "generateObject"}

\* call o takes a step: it is made, or one of its awaits completes
Steps(o) == pc'[o] # pc[o]

\* C16: on an initialized agent, no step of a getInfo, generateResponse or
\* generateObject call changes the client registry, the tool registry,
\* the nested-agent registry or the flag; a getInfo changes none of them
\* in any state, and returns the name, the description, the keys of the
\* tool registry, the keys of the nested-agent registry, the default model
\* and the default system prompt.
C16_ReadersLeaveRegistries ==
    [][\A o \in Ops :
          (Steps(o) /\ kind'[o] \in Readers) =>
              /\ (initialized \/ kind'[o] = "getInfo") =>
                    UNCHANGED <<clients, tools, agents, initialized>>
              /\ kind'[o] = "getInfo" =>
                    info'[o] = [name |-> AgentName, description |-> AgentDescription,
                                tools |-> DOMAIN tools, agents |-> DOMAIN agents,
                                model |-> DefaultModel, system |-> DefaultSystem]]_vars

\* on an initialized agent with a nested agent, a generateObject has
\* returned and a getInfo has reported the tools and the nested agent
C16_Witness ==
    /\ initialized
    /\ \E o \in Ops : kind[o] = "generateObject" /\ pc[o] = "done"
    /\ \E o \in Ops :
          /\ kind[o] = "getInfo"
          /\ info[o].agents # {}
          /\ info[o].tools # {}

\* C17: the step in which generateResponse filters the tool registry
\* leaves the registry with the keys and values it had when it was handed
\* to filterTools, whatever the predicate keeps.
C17_FilterLeavesRegistry ==
    [][\A o \in Ops :
          (~hist.issued[o] /\ hist'.issued[o]) =>
              /\ tools' = hist'.toolsBeforeFilter[o]
              /\ FilterToolsCall(tools', args'[o].filterMCPTools).input = tools']_vars

\* a predicate that rejects every tool was applied to a registry that
\* holds tools, and the registry holds them still
C17_Witness ==
    \E o \in Ops :
        /\ hist.issued[o]
        /\ args[o].filterMCPTools.given
        /\ hist.filtered[o] = EmptyObj
        /\ tools # EmptyObj
        /\ tools = hist.toolsBeforeFilter[o]

\* C18: once a close() made after a completed initialize has resolved,
\* close() has been invoked on every client that initialize connected:
\* none of them is still open.
C18_NoClientLeftOpen ==
    \A c \in Ops :
        (kind[c] = "close" /\ pc[c] = "done") =>
            \A i \in Ops :
                (i < c /\ hist.initOk[i]) =>
                    \A s \in DOMAIN conn[i] : conn[i][s] # "open"

\* C19: when initialize rejects because an initializer failed, no server
\* of the configuration is still connecting: every other connection
\* attempt had succeeded or failed before the rejection.
C19_RejectsAfterAllAttempts ==
    \A o \in Ops :
        (pc[o] = "failed" /\ hist.ranInit[o] /\ error[o].kind \in InitializerErrors) =>
            hist.connectingAtReject[o] = {}

\* C20: when a required parameter of the descriptor has no variable in
\* the environment, its initialize fails, no transport is ever created
\* for the descriptor and no client is stored under its name.
C20_FailsBeforeConnecting ==
    (InitializedOnce /\ \E k \in RequiredKeys : env[k] = "unset") =>
        /\ pc[1] = "failed"
        /\ conn[1][<<1, 0>>] = "rejected"
        /\ toolq[1] = {}
        /\ config[1].name \notin DOMAIN clients

\* initialize failed on a descriptor with one required parameter unset and
\* another parameter whose variable is set
C20_Witness ==
    /\ InitializedOnce
    /\ pc[1] = "failed"
    /\ clients = EmptyObj
    /\ \E k \in RequiredKeys : env[k] = "unset"
    /\ \E i \in 1..Len(config[1].parameters) : env[config[1].parameters[i].key] = "set"

\* C21: when initializeAutoServer hands an auto descriptor over, the
\* descriptor it handed over is the first of the underlying descriptors,
\* the initializer is the network-stream one exactly when that descriptor's
\* type says so, and the env of the configuration handed over holds every
\* declared parameter whose variable is set, with the variable's value,
\* every env entry of the descriptor's own that is not a declared
\* parameter, with its own value, and nothing else.
C21_InjectedEnvMerged ==
    \A o \in Ops :
        \A s \in DOMAIN hist.handed[o] :
            LET srv == SlotServer(config, s)
                h == hist.handed[o][s]
                d == srv.mcpConfig[1]
                declared == KeysOf(srv.parameters)
                inj == {k \in declared : env[k] = "set"}
                own == (DOMAIN d.env) \ declared
            IN  /\ h.config.type = d.type
                /\ h.initializer = IF d.type = "sse" THEN "initializeSSEServer"
                                   ELSE "initializeSdtioServer"
                /\ DOMAIN h.config.env = inj \cup own
                /\ \A k \in inj : h.config.env[k] = EnvValue(k)
                /\ \A k \in own : h.config.env[k] = d.env[k]

\* C22: once initialize has completed, every nested agent of an "agent"
\* entry of the configuration list is held in the nested-agent registry,
\* and a close() made afterwards invokes close on every one of them.
C22_EveryNestedAgentTracked ==
    /\ (hist.initOk[1] /\ pc[2] = "idle") => RegistryAgents(St) = NestedOf(config)
    /\ \A c \in Ops :
          (hist.initOk[1] /\ kind[c] = "close") =>
              /\ hist.closeAgents[c] = NestedOf(config)
              /\ \A a \in NestedOf(config) : nested[a] # "open"

\* the tools the clients of the registry report, and the inline and agent
\* tools of the configuration list, as a set of <<name, tool>> pairs
ReportedTools ==
    UNION {{<<k, ServerTools(ClientServer(c))[k]>> : k \in DOMAIN ServerTools(ClientServer(c))} :
              c \in RegistryClients(St)}
ConfiguredTools ==
    {<<ToSnakeCase(config[i].cname, <<>>), Tool("inline", "inline")>> :
        i \in RoutedTo(config, "tool")}
    \cup UNION {{<<AgentToolName(ResolvedName(config[i], r), r), Tool("agent", config[i].agent)>> :
                    r \in RandomIds} : i \in RoutedTo(config, "initializeAgentConfig")}
PairwiseDistinct(pairs) == \A p, q \in pairs : p[1] = q[1] => p = q

\* C23: while an initialize queries clients for their tools, every server
\* of the configuration list has connected and every server map has
\* resolved; and once initialize has resolved, the tool registry has
\* exactly the names the clients of the registry reported and the names of
\* the inline and agent tools, each, when the names are pairwise distinct,
\* with its tool.
C23_NoMergeLost ==
    \A o \in Ops :
        /\ (pc[o] = "tools" \/ toolq[o] # {}) =>
              /\ \A s \in DOMAIN conn[o] : conn[o][s] = "open"
              /\ \A i \in DOMAIN mapState[o] : mapState[o][i] = "resolved"
        /\ hist.initOk[o] =>
              LET all == ReportedTools \cup ConfiguredTools
              IN  /\ DOMAIN tools = {p[1] : p \in all}
                  /\ PairwiseDistinct(all) =>
                        \A p \in all : tools[p[1]] = p[2]

\* initialize resolved after two clients were queried, with an inline
\* tool registered before them, all under distinct names
C23_Witness ==
    /\ hist.initOk[1]
    /\ Cardinality(RegistryClients(St)) = 2
    /\ RoutedTo(config, "tool") # {}
    /\ PairwiseDistinct(ReportedTools \cup ConfiguredTools)
    /\ Cardinality(DOMAIN tools) = 4

\* C24: when an initialize has queried the clients for their tools, the
\* tool registry it ends with is the same for every order in which the
\* queries complete.
C24_OrderOfCompletionIrrelevant ==
    \A o \in Ops :
        pc[o] = "tools" => Cardinality(MergeOutcomes(tools, toolq[o])) = 1

\* C25: in what generateObject returns, the usage inside
\* objectGenerationResult is the usage the structured-extraction call
\* itself reported, and the usage inside textGenerationResult is the usage
\* the text-generation call reported.
C25_SubResultsAreRaw ==
    \A o \in Ops :
        (kind[o] = "generateObject" /\ pc[o] = "done") =>
            /\ objReturn[o].objectGenerationUsage = hist.objReported[o]
            /\ objReturn[o].textGenerationUsage = hist.modelResult[o].usage

\* the servers of the server map config[1] that no case of the switch takes
Unsupported == {j \in 1..Len(config[1].mcpServers) :
                   config[1].mcpServers[j].type \notin {"", "stdio", "sse", "auto"}}

\* C26: an initialize of a server map dispatches each server on its own
\* type: none or "stdio" to the subprocess case, "sse" to the
\* network-stream case, "auto" to the auto-resolved case; for any other
\* type initialize fails with the unsupported-server-type error of the
\* first such server, and no client is stored under the name of any of
\* them.
C26_DispatchOnOwnType ==
    hist.ranInit[1] =>
        /\ \A j \in 1..Len(config[1].mcpServers) :
              LET srv == config[1].mcpServers[j]
                  case == hist.dispatched[1][<<1, j>>]
              IN  /\ srv.type \in {"", "stdio"} => case = "stdio"
                  /\ srv.type = "sse" => case = "sse"
                  /\ srv.type = "auto" => case = "auto"
                  /\ j \in Unsupported =>
                        /\ case = "default"
                        /\ srv.name \notin DOMAIN clients
        /\ Unsupported # {} =>
              /\ pc[1] = "failed"
              /\ error[1] = Err("Unsupported", config[1].mcpServers[MinOf(Unsupported)].name, <<>>)

\* C27: every call the agent-as-tool adapter makes to a nested agent's
\* generateResponse carries a prompt or a message list, and not both.
C27_PromptOrMessagesNotBoth ==
    \A call \in hist.adapterCalls : call.prompt.given # call.messages.given

\* no connection attempt and no close of a client of call o is in flight
Quiet(o) == \A s \in DOMAIN conn[o] : conn[o][s] \notin {"connecting", "closing"}

\* C28: when an initialize has rejected and every connection attempt and
\* every close it started has settled, the flag is not set and none of
\* the clients it connected is open.
C28_RejectLeavesNothingOpen ==
    \A o \in Ops :
        (pc[o] = "failed" /\ hist.ranInit[o] /\ Quiet(o)) =>
            /\ ~initialized
            /\ \A s \in DOMAIN conn[o] : conn[o][s] # "open"

\* call o is a close() that rejects in this step
CloseRejects(o) == kind[o] = "close" /\ pc[o] = "closing" /\ pc'[o] = "failed"

\* call o is a close() made in this step, right after a close() that rejected
ClosesAgain(o) ==
    /\ o > 1 /\ pc[o] = "idle" /\ pc'[o] # "idle" /\ kind'[o] = "close"
    /\ kind[o - 1] = "close" /\ pc[o - 1] = "failed"

\* C29: the step in which a close() rejects changes neither registry, and
\* both hold what they held when it was called; a close() made next is
\* invoked on the same clients and the same nested agents, those already
\* closed included.
C29_FailedCloseKeepsRegistries ==
    [][\A o \in Ops :
          /\ CloseRejects(o) =>
                /\ UNCHANGED <<clients, agents>>
                /\ {clients'[n] : n \in DOMAIN clients'} = hist.closeClients[o]
                /\ {agents'[k].agent : k \in DOMAIN agents'} = hist.closeAgents[o]
          /\ ClosesAgain(o) =>
                /\ hist'.closeClients[o] = hist.closeClients[o - 1]
                /\ hist'.closeAgents[o] = hist.closeAgents[o - 1]]_vars

\* a close() rejected after one of its clients had closed, and the next
\* close() was invoked on the two clients and the nested agent again
C29_Witness ==
    \E o \in Ops :
        /\ o > 1 /\ kind[o] = "close" /\ pc[o] # "idle"
        /\ kind[o - 1] = "close" /\ pc[o - 1] = "failed"
        /\ Cardinality(hist.closeClients[o]) = 2
        /\ hist.closeAgents[o] # {}
        /\ \E c \in hist.closeClients[o] : conn[c[1]][<<c[2], c[3]>>] = "closed"

\* the names toSnakeCase is applied to when entry config[1] is registered
EntryNames == {config[1].cname, config[1].agentName} \ {NoName}

\* C30: toSnakeCase applied twice to the name of an agent entry gives what
\* it gives applied once, and once the entry is registered every tool name
\* is "agent_" followed by a key of the nested-agent registry, and every
\* key has such a tool.
C30_ToolNameIsPrefixedKey ==
    pc[1] = "done" =>
        /\ \A n \in EntryNames, r \in RandomIds :
              ToSnakeCase(ToSnakeCase(n, r), r) = ToSnakeCase(n, r)
        /\ DOMAIN tools = {AgentPrefix \o k : k \in DOMAIN agents}

=============================================================================
